---- MODULE Spec2Model ----
(***************************************************************************)
(* Implicit-repeat content distribution of emmetio/html-expand             *)
(* (lib/repeater-content.js): prepare(), insert(), the default export and  *)
(* their helpers, over an abbreviation tree kept as a table of nodes.      *)
(*                                                                         *)
(* A JavaScript string is a sequence of one-character strings, so that     *)
(* token scanning, range replacement and the regular expressions are       *)
(* computed character by character.                                        *)
(***************************************************************************)
EXTENDS Integers, Sequences, FiniteSets, TLC

VARIABLES
    nodes,      \* the node table: every Node object ever created, by id
    root,       \* id of the tree handed to the exported functions
    before,     \* the node table as it was when the last call started
    last        \* the last call: its name and its arguments

vars == <<nodes, root, before, last>>

----------------------------------------------------------------------------
(* Bounds of the model *)

\* longest content list handed to prepare/insert/the default export
MaxContent == 2

\* most nodes below the root of a tree the parser hands over
MaxNodes == 3

----------------------------------------------------------------------------
(* JavaScript values *)

\* a null/absent node reference (parent, next, previous of a detached node)
NONE == 0

\* the JavaScript null of node.value / attr.value; no string is equal to it
Null == <<"null">>

\* repeat.count === null of an unresolved repeater
NullCount == -1

\* not-yet-set repeat.value / repeat.index
Undefined == -1

placeholder == <<"$", "#">>

caret == <<"|">>

\* the escape marker recognised by the token scanner
escape == "\\"

Digits == {"0", "1", "2", "3", "4", "5", "6", "7", "8", "9"}

Lower == {"a", "b", "c", "d", "e", "f", "g", "h", "i", "j", "k", "l", "m",
          "n", "o", "p", "q", "r", "s", "t", "u", "v", "w", "x", "y", "z"}

Upper == {"A", "B", "C", "D", "E", "F", "G", "H", "I", "J", "K", "L", "M",
          "N", "O", "P", "Q", "R", "S", "T", "U", "V", "W", "X", "Y", "Z"}

\* String.prototype.toLowerCase on one character
LowerOf(c) ==
    CASE c = "A" -> "a" [] c = "B" -> "b" [] c = "C" -> "c" [] c = "D" -> "d"
      [] c = "E" -> "e" [] c = "F" -> "f" [] c = "G" -> "g" [] c = "H" -> "h"
      [] c = "I" -> "i" [] c = "J" -> "j" [] c = "K" -> "k" [] c = "L" -> "l"
      [] c = "M" -> "m" [] c = "N" -> "n" [] c = "O" -> "o" [] c = "P" -> "p"
      [] c = "Q" -> "q" [] c = "R" -> "r" [] c = "S" -> "s" [] c = "T" -> "t"
      [] c = "U" -> "u" [] c = "V" -> "v" [] c = "W" -> "w" [] c = "X" -> "x"
      [] c = "Y" -> "y" [] c = "Z" -> "z" [] OTHER -> c

toLowerCase(s) == [i \in DOMAIN s |-> LowerOf(s[i])]

\* s.substring(from) in 1-based positions
Rest(s, from) == SubSeq(s, from, Len(s))

StartsWith(s, p) == Len(s) >= Len(p) /\ SubSeq(s, 1, Len(p)) = p

AllIn(s, class) == \A i \in DOMAIN s : s[i] \in class

\* Array.prototype.join
RECURSIVE join(_, _)
join(list, sep) ==
    IF list = <<>> THEN <<>>
    ELSE IF Len(list) = 1 THEN list[1]
    ELSE list[1] \o sep \o join(Tail(list), sep)

----------------------------------------------------------------------------
(* lib/utils.js: the token scanner *)

\* findUnescapedTokens(str, token): the ranges <<start, length>> of the
\* occurrences of token in str that are not immediately preceded by the
\* escape marker, left to right, not overlapping.
RECURSIVE scanTokens(_, _, _)
scanTokens(str, token, pos) ==
    IF pos + Len(token) - 1 > Len(str) THEN <<>>
    ELSE IF SubSeq(str, pos, pos + Len(token) - 1) = token
         THEN IF pos > 1 /\ str[pos - 1] = escape
              THEN scanTokens(str, token, pos + Len(token))
              ELSE <<<<pos, Len(token)>>>> \o scanTokens(str, token, pos + Len(token))
         ELSE scanTokens(str, token, pos + 1)

findUnescapedTokens(str, token) == scanTokens(str, token, 1)

\* replaceRanges(str, ranges, value): every range replaced by value, and the
\* escape marker in front of an escaped token stripped. The token is the text
\* of the ranges (they all cover the same token).
RECURSIVE rebuild(_, _, _, _, _)
rebuild(str, starts, token, value, pos) ==
    IF pos > Len(str) THEN <<>>
    ELSE IF pos \in starts
         THEN value \o rebuild(str, starts, token, value, pos + Len(token))
    ELSE IF /\ str[pos] = escape
            /\ pos + Len(token) <= Len(str)
            /\ SubSeq(str, pos + 1, pos + Len(token)) = token
         THEN token \o rebuild(str, starts, token, value, pos + 1 + Len(token))
    ELSE <<str[pos]>> \o rebuild(str, starts, token, value, pos + 1)

replaceRanges(str, ranges, value) ==
    IF ranges = <<>> THEN str
    ELSE LET r1 == ranges[1]
             token == SubSeq(str, r1[1], r1[1] + r1[2] - 1)
             starts == {ranges[i][1] : i \in DOMAIN ranges}
         IN rebuild(str, starts, token, value, 1)

----------------------------------------------------------------------------
(* The regular expressions of repeater-content.js *)

UrlSchemes == { <<"h","t","t","p">>, <<"h","t","t","p","s">>,
                <<"f","t","p">>, <<"f","i","l","e">> }

SchemeSep == <<":", "/", "/">>

DomainChars == Digits \cup Lower \cup {".", "-"}

TldChars == Lower \cup {"."}

WordChars == Digits \cup Lower \cup Upper \cup {"_"}

PathChars == WordChars \cup {"/", " ", ".", "-"}

\* ([\da-z\.-]+)\.([a-z\.]{2,6}) followed by tail, where tail decides the rest
HostAt(s, from, dot, n) ==
    /\ dot > from
    /\ dot + n <= Len(s)
    /\ AllIn(SubSeq(s, from, dot - 1), DomainChars)
    /\ s[dot] = "."
    /\ AllIn(SubSeq(s, dot + 1, dot + n), TldChars)

\* /^((?:https?|ftp|file):\/\/)?([\da-z\.-]+)\.([a-z\.]{2,6})([\/\w \.-]*)*\/?$/
reUrl(s) ==
    \E from \in {1} \cup {Len(p) + 4 : p \in {q \in UrlSchemes : StartsWith(s, q \o SchemeSep)}} :
        \E dot \in 1..Len(s) : \E n \in 2..6 :
            /\ HostAt(s, from, dot, n)
            /\ AllIn(Rest(s, dot + n + 1), PathChars)

\* /^([a-z0-9_\.-]+)@([\da-z\.-]+)\.([a-z\.]{2,6})$/
reEmail(s) ==
    \E at \in 2..Len(s) : \E dot \in 1..Len(s) : \E n \in 2..6 :
        /\ s[at] = "@"
        /\ AllIn(SubSeq(s, 1, at - 1), Digits \cup Lower \cup {"_", ".", "-"})
        /\ HostAt(s, at + 1, dot, n)
        /\ dot + n = Len(s)

\* /^([a-z]+:)?\/\//i
reProto(s) ==
    \/ StartsWith(s, <<"/", "/">>)
    \/ \E k \in 1..Len(s) :
          /\ AllIn(SubSeq(s, 1, k), Lower \cup Upper)
          /\ StartsWith(Rest(s, k + 1), SchemeSep)

----------------------------------------------------------------------------
(* The tree node (class Node of the abbreviation tree) *)

NoRepeat ==
    [present |-> FALSE, count |-> NullCount, implicit |-> FALSE,
     value |-> Undefined, index |-> Undefined]

\* position of e in list, counted from 1; 0 when absent (indexOf() + 1)
IndexOf(list, e) ==
    IF \E i \in DOMAIN list : list[i] = e
    THEN CHOOSE i \in DOMAIN list : list[i] = e /\ \A j \in 1..(i - 1) : list[j] # e
    ELSE 0

\* list.splice(i - 1, 1)
RemoveAt(list, i) == SubSeq(list, 1, i - 1) \o SubSeq(list, i + 1, Len(list))

\* list.splice(i - 1, 0, e)
InsertAt(list, i, e) == SubSeq(list, 1, i - 1) \o <<e>> \o SubSeq(list, i, Len(list))

firstChild(T, n) == IF T[n].children = <<>> THEN NONE ELSE T[n].children[1]

setNext(T, n, v) == IF n = NONE THEN T ELSE [T EXCEPT ![n].next = v]

setPrevious(T, n, v) == IF n = NONE THEN T ELSE [T EXCEPT ![n].previous = v]

\* parent.removeChild(node)
removeChild(T, p, n) ==
    LET ix == IndexOf(T[p].children, n) IN
    IF ix = 0 THEN T
    ELSE LET T1 == [T EXCEPT ![p].children = RemoveAt(@, ix)]
             T2 == setNext(T1, T[n].previous, T[n].next)
             T3 == setPrevious(T2, T[n].next, T[n].previous)
         IN [T3 EXCEPT ![n].parent = NONE, ![n].next = NONE, ![n].previous = NONE]

\* node.remove()
remove(T, n) == IF T[n].parent # NONE THEN removeChild(T, T[n].parent, n) ELSE T

\* parent.insertAt(node, pos), pos counted from 1
insertAt(T, p, n, pos) ==
    LET prev == IF pos > 1 THEN T[p].children[pos - 1] ELSE NONE
        next == IF pos <= Len(T[p].children) THEN T[p].children[pos] ELSE NONE
        T1 == remove(T, n)
        T2 == [T1 EXCEPT ![n].parent = p, ![p].children = InsertAt(@, pos, n)]
        T3 == IF prev = NONE THEN T2
              ELSE [T2 EXCEPT ![n].previous = prev, ![prev].next = n]
    IN IF next = NONE THEN T3
       ELSE [T3 EXCEPT ![n].next = next, ![next].previous = n]

\* parent.insertBefore(newNode, refNode)
insertBefore(T, p, newNode, refNode) ==
    insertAt(T, p, newNode, IndexOf(T[p].children, refNode))

\* parent.appendChild(node)
appendChild(T, p, n) == insertAt(T, p, n, Len(T[p].children) + 1)

\* node.clone(true): a detached deep copy, made of new Node objects
RECURSIVE clone(_, _), cloneChildren(_, _, _)
clone(T, n) ==
    LET id == Len(T) + 1
        copy == [name |-> T[n].name, value |-> T[n].value,
                 attributes |-> T[n].attributes, children |-> <<>>,
                 parent |-> NONE, next |-> NONE, previous |-> NONE,
                 repeat |-> T[n].repeat]
    IN [T |-> cloneChildren(Append(T, copy), id, T[n].children), id |-> id]

cloneChildren(T, id, kids) ==
    IF kids = <<>> THEN T
    ELSE LET c == clone(T, kids[1])
         IN cloneChildren(appendChild(c.T, id, c.id), id, Tail(kids))

\* node.hasAttribute(name)
hasAttribute(T, n, name) ==
    \E i \in DOMAIN T[n].attributes : T[n].attributes[i].name = name

\* node.setAttribute(name, value): replaces the attribute of that name where
\* it stands, or adds a new one at the end
setAttribute(T, n, name, value) ==
    LET attrs == T[n].attributes
        new == [name |-> name, value |-> value]
    IN IF hasAttribute(T, n, name)
       THEN [T EXCEPT ![n].attributes =
                [i \in DOMAIN attrs |-> IF attrs[i].name = name THEN new ELSE attrs[i]]]
       ELSE [T EXCEPT ![n].attributes = Append(attrs, new)]

\* JavaScript truthiness of a string-or-null
Truthy(v) == v # Null /\ v # <<>>

----------------------------------------------------------------------------
(* lib/repeater-content.js *)

\* replacePlaceholder() replacing escaped placeholders as well
replacePlaceholderEscapedToo(str, value) ==
    IF str # Null
    THEN LET ranges == findUnescapedTokens(SelectSeq(str, LAMBDA c : c # escape), placeholder)
         IN IF ranges # <<>>
            THEN [str |-> replaceRanges(SelectSeq(str, LAMBDA c : c # escape), ranges, value),
                  replaced |-> TRUE]
            ELSE [str |-> str, replaced |-> FALSE]
    ELSE [str |-> str, replaced |-> FALSE]

\* replacePlaceholder(str, value, _state); the walk state S carries
\* _state.replaced as S.flag
replacePlaceholder(str, value) ==
    IF str # Null
    THEN LET ranges == findUnescapedTokens(str, placeholder)
         IN IF ranges # <<>>
            THEN [str |-> replaceRanges(str, ranges, value), replaced |-> TRUE]
            ELSE [str |-> str, replaced |-> FALSE]
    ELSE [str |-> str, replaced |-> FALSE]

\* the attributes.forEach of insertContentIntoPlaceholder, from attribute i on
RECURSIVE replaceInAttributes(_, _, _, _)
replaceInAttributes(S, n, content, i) ==
    IF i > Len(S.T[n].attributes) THEN S
    ELSE LET attr == S.T[n].attributes[i] IN
         IF Truthy(attr.value)
         THEN LET r == replacePlaceholder(attr.value, content)
              IN replaceInAttributes(
                    [T |-> setAttribute(S.T, n, attr.name, r.str),
                     flag |-> S.flag \/ r.replaced], n, content, i + 1)
         ELSE replaceInAttributes(S, n, content, i + 1)

\* insertContentIntoPlaceholder(node, content): .T the table after it,
\* .flag its return value (state.replaced)
insertContentIntoPlaceholder(T, n, content) ==
    LET r == replacePlaceholder(T[n].value, content)
    IN replaceInAttributes(
          [T |-> [T EXCEPT ![n].value = r.str], flag |-> r.replaced], n, content, 1)

\* findDeepestNode() following children[0]
RECURSIVE findFirstLeaf(_, _)
findFirstLeaf(T, n) ==
    IF T[n].children # <<>> THEN findFirstLeaf(T, T[n].children[1]) ELSE n

\* findDeepestNode(node)
RECURSIVE findDeepestNode(_, _)
findDeepestNode(T, n) ==
    IF T[n].children # <<>>
    THEN findDeepestNode(T, T[n].children[Len(T[n].children)])
    ELSE n

\* the href branch with 'http://' put in front of every URL
setHrefAlwaysHttp(T, n, content) ==
    IF toLowerCase(T[n].name) = <<"a">> \/ hasAttribute(T, n, "href")
    THEN IF reUrl(content)
         THEN setAttribute(T, n, "href", <<"h","t","t","p",":","/","/">> \o content)
         ELSE IF reEmail(content)
              THEN setAttribute(T, n, "href", <<"m","a","i","l","t","o",":">> \o content)
              ELSE T
    ELSE T

\* the href branch of setNodeContent
setHref(T, n, content) ==
    IF toLowerCase(T[n].name) = <<"a">> \/ hasAttribute(T, n, "href")
    THEN IF reUrl(content)
         THEN setAttribute(T, n, "href",
                 (IF reProto(content) THEN <<>> ELSE <<"h","t","t","p",":","/","/">>)
                    \o content)
         ELSE IF reEmail(content)
              THEN setAttribute(T, n, "href", <<"m","a","i","l","t","o",":">> \o content)
              ELSE T
    ELSE T

\* setNodeContent(node, content)
setNodeContent(T, n, content) ==
    LET ranges == IF Truthy(T[n].value)
                  THEN findUnescapedTokens(T[n].value, caret)
                  ELSE <<>>
    IN IF ranges # <<>>
       THEN [T EXCEPT ![n].value = replaceRanges(@, ranges, content)]
       ELSE [setHref(T, n, content) EXCEPT ![n].value = content]

----------------------------------------------------------------------------
(* node.walk(fn) and the three callbacks handed to it *)

\* A walk carries S = [T |-> node table, flag |-> the variable its callback
\* closes over (updated of insert, inserted of insertContent)].
\* walk visits the descendants of a node, never the node itself, parents
\* before children; the next sibling is read before the callback runs.
RECURSIVE walk(_, _, _, _), walkFrom(_, _, _, _), callback(_, _, _, _),
          insertContent(_, _, _), prepareClones(_, _, _, _)

walk(S, n, fn, arg) == walkFrom(S, firstChild(S.T, n), fn, arg)

walkFrom(S, ctx, fn, arg) ==
    IF ctx = NONE THEN S
    ELSE LET next == S.T[ctx].next
             S1 == callback(fn, S, ctx, arg)
             S2 == walk(S1, ctx, fn, arg)
         IN walkFrom(S2, next, fn, arg)

\* the for loop of prepare's callback, from clone i on
prepareClones(T, node, amount, i) ==
    IF i >= amount THEN T
    ELSE LET c == clone(T, node)
             T1 == [c.T EXCEPT ![c.id].repeat =
                       [@ EXCEPT !.implicit = TRUE, !.count = amount,
                                 !.value = i + 1, !.index = i]]
         IN prepareClones(insertBefore(T1, T1[node].parent, c.id, node),
                          node, amount, i + 1)

\* prepare's callback without its node.remove()
prepareCallbackKeepsNode(S, node, amount) ==
    IF S.T[node].repeat.present /\ S.T[node].repeat.count = NullCount
    THEN [S EXCEPT !.T = prepareClones(S.T, node, amount, 0)]
    ELSE S

\* node => { if (node.repeat && node.repeat.count === null) ... } of prepare
prepareCallback(S, node, amount) ==
    IF S.T[node].repeat.present /\ S.T[node].repeat.count = NullCount
    THEN [S EXCEPT !.T = remove(prepareClones(S.T, node, amount, 0), node)]
    ELSE S

\* content[index]: undefined past the end of the list, kept as a one-element
\* text that no string of characters is equal to
At(content, index) ==
    IF index + 1 \in DOMAIN content THEN content[index + 1] ELSE <<"undefined">>

\* insert's callback reading content[0] for every node
insertCallbackFirstItem(S, node, content) ==
    IF S.T[node].repeat.present /\ S.T[node].repeat.implicit
    THEN [T |-> insertContent(S.T, node, At(content, 0)), flag |-> TRUE]
    ELSE S

\* node => { if (node.repeat && node.repeat.implicit) ... } of insert
insertCallback(S, node, content) ==
    IF S.T[node].repeat.present /\ S.T[node].repeat.implicit
    THEN [T |-> insertContent(S.T, node, At(content, S.T[node].repeat.index)),
          flag |-> TRUE]
    ELSE S

\* child => inserted |= insertContentIntoPlaceholder(child, content)
insertContentCallback(S, child, content) ==
    LET r == insertContentIntoPlaceholder(S.T, child, content)
    IN [T |-> r.T, flag |-> S.flag \/ r.flag]

callback(fn, S, ctx, arg) ==
    CASE fn = "prepare" -> prepareCallback(S, ctx, arg)
      [] fn = "insert" -> insertCallback(S, ctx, arg)
      [] fn = "insertContent" -> insertContentCallback(S, ctx, arg)

\* insertContent() without the if (!inserted) around the fallback
insertContentAlwaysSets(T, node, content) ==
    LET w == walk(insertContentIntoPlaceholder(T, node, content), node,
                  "insertContent", content)
    IN setNodeContent(w.T, findDeepestNode(w.T, node), content)

\* insertContent() with inserted || ... : descendants are skipped once the
\* node itself held a placeholder
insertContentShortCircuit(T, node, content) ==
    LET own == insertContentIntoPlaceholder(T, node, content)
        w == IF own.flag THEN own ELSE walk(own, node, "insertContent", content)
    IN IF ~w.flag
       THEN setNodeContent(w.T, findDeepestNode(w.T, node), content)
       ELSE w.T

\* insertContent(node, content)
insertContent(T, node, content) ==
    LET w == walk(insertContentIntoPlaceholder(T, node, content), node,
                  "insertContent", content)
    IN IF ~w.flag
       THEN setNodeContent(w.T, findDeepestNode(w.T, node), content)
       ELSE w.T

\* prepare(tree, amount)
prepare(T, tree, amount) ==
    LET amt == IF amount = 0 THEN 1 ELSE amount
    IN walk([T |-> T, flag |-> FALSE], tree, "prepare", amt).T

\* A content argument: kind is what typeof / Array.isArray see, items the
\* strings (the one string or the printed number when kind is not "array").
isArray(content) == content.kind = "array"

\* insert() without the content.length test
insertAnyArray(T, tree, content) ==
    IF isArray(content)
    THEN LET w == walk([T |-> T, flag |-> FALSE], tree, "insert", content.items)
         IN IF ~w.flag
            THEN setNodeContent(w.T, findDeepestNode(w.T, tree),
                                join(content.items, <<"\n">>))
            ELSE w.T
    ELSE T

\* insert(tree, content)
insert(T, tree, content) ==
    IF isArray(content) /\ Len(content.items) # 0
    THEN LET w == walk([T |-> T, flag |-> FALSE], tree, "insert", content.items)
         IN IF ~w.flag
            THEN setNodeContent(w.T, findDeepestNode(w.T, tree),
                                join(content.items, <<"\n">>))
            ELSE w.T
    ELSE T

\* the default export without the typeof content === 'string' branch
expandArraysOnly(T, tree, content) ==
    IF isArray(content) /\ Len(content.items) # 0
    THEN insert(prepare(T, tree, Len(content.items)), tree, content)
    ELSE T

\* export default function(tree, content)
expand(T, tree, content) ==
    LET c == IF content.kind = "string"
             THEN [kind |-> "array", items |-> <<content.items[1]>>]
             ELSE content
    IN IF isArray(c) /\ Len(c.items) # 0
       THEN insert(prepare(T, tree, Len(c.items)), tree, c)
       ELSE T

----------------------------------------------------------------------------
(* The trees the parser hands over *)

\* a is i or an ancestor of i under the parent vector p
RECURSIVE AncOrSelf(_, _, _)
AncOrSelf(p, a, i) == a = i \/ (i > 1 /\ AncOrSelf(p, a, p[i]))

\* Parent vectors of the trees of n nodes numbered in document order:
\* node 1 is the root, node i > 1 hangs below node i - 1 or one of its ancestors
Shapes(n) ==
    {p \in [1..n -> 0..(n - 1)] :
        /\ p[1] = NONE
        /\ \A i \in 2..n : p[i] >= 1 /\ AncOrSelf(p, p[i], i - 1)}

KidsOf(p, n) == SelectSeq([i \in DOMAIN p |-> i], LAMBDA i : p[i] = n)

\* the Node objects of a parsed tree, with their sibling links
BuildTree(p, labels) ==
    [i \in DOMAIN p |->
        LET sibs == IF i = 1 THEN <<1>> ELSE KidsOf(p, p[i])
            k == IndexOf(sibs, i)
        IN [name |-> labels[i].name, value |-> labels[i].value,
            attributes |-> labels[i].attributes, children |-> KidsOf(p, i),
            parent |-> p[i],
            next |-> IF k < Len(sibs) THEN sibs[k + 1] ELSE NONE,
            previous |-> IF k > 1 THEN sibs[k - 1] ELSE NONE,
            repeat |-> labels[i].repeat]]

\* the root container the parser returns
RootLabel == [name |-> <<>>, value |-> Null, attributes |-> <<>>, repeat |-> NoRepeat]

\* li* : repeat {count: null}
Unresolved == [NoRepeat EXCEPT !.present = TRUE]

\* one copy of li*2 as the parser unrolls it: repeat {count: 2, value: 1}
Explicit == [NoRepeat EXCEPT !.present = TRUE, !.count = 2, !.value = 1]

Label(name, value, attributes, repeat) ==
    [name |-> name, value |-> value, attributes |-> attributes, repeat |-> repeat]

\* v is a tree of at most max nodes below the root, labelled from Kinds
IsTree(v, Kinds, max) ==
    \E n \in 1..(max + 1) : \E p \in Shapes(n) : \E l \in [2..n -> Kinds] :
        v = BuildTree(p, [i \in 1..n |-> IF i = 1 THEN RootLabel ELSE l[i]])

----------------------------------------------------------------------------
(* Content arguments *)

Items == { <<"a">>, <<"b">> }

RECURSIVE Lists(_)
Lists(n) ==
    IF n = 0 THEN {<<>>}
    ELSE Lists(n - 1) \cup {Append(l, x) : l \in {m \in Lists(n - 1) : Len(m) = n - 1}, x \in Items}

Array(items) == [kind |-> "array", items |-> items]

Arrays == {Array(l) : l \in Lists(MaxContent)}

\* a lone string, the empty string among them
Strings == {[kind |-> "string", items |-> <<s>>] : s \in Items \cup {<<>>}}

\* a lone value that is neither a string nor an array
Numbers == {[kind |-> "number", items |-> << <<"5">> >>]}

NoContent == Array(<<>>)

Call(op, amount, node, content) ==
    [op |-> op, amount |-> amount, node |-> node, content |-> content]

----------------------------------------------------------------------------
(* The exported functions, called on a parsed tree *)

\* nodes of table T reachable from node n, n included
RECURSIVE Subtree(_, _)
Subtree(T, n) ==
    {n} \cup UNION {Subtree(T, T[n].children[i]) : i \in DOMAIN T[n].children}

RepeatKinds ==
    { Label(<<"l","i">>, Null, <<>>, NoRepeat),
      Label(<<"l","i">>, Null, <<>>, Unresolved),
      Label(<<"l","i">>, <<"x">>, <<>>, Explicit) }

Init ==
    /\ IsTree(nodes, RepeatKinds, MaxNodes)
    /\ root = 1
    /\ before = nodes
    /\ last = Call("init", 0, NONE, NoContent)

Prepare(amount) ==
    /\ last.op = "init"
    /\ nodes' = prepare(nodes, root, amount)
    /\ before' = nodes
    /\ last' = Call("prepare", amount, NONE, NoContent)
    /\ UNCHANGED root

Insert(content) ==
    /\ last.op \in {"init", "prepare"}
    /\ nodes' = insert(nodes, root, content)
    /\ before' = nodes
    /\ last' = Call("insert", 0, NONE, content)
    /\ UNCHANGED root

Expand(content) ==
    /\ last.op = "init"
    /\ nodes' = expand(nodes, root, content)
    /\ before' = nodes
    /\ last' = Call("expand", 0, NONE, content)
    /\ UNCHANGED root

Next ==
    \/ \E amount \in 0..MaxContent : Prepare(amount)
    \/ \E content \in Arrays \cup Strings \cup Numbers : Insert(content)
    \/ \E content \in Arrays \cup Strings \cup Numbers : Expand(content)

Spec == Init /\ [][Next]_vars

----------------------------------------------------------------------------
(* The same functions on templates that carry placeholders and carets *)

ContentKinds ==
    { Label(<<"l","i">>, Null, <<>>, NoRepeat),
      Label(<<"l","i">>, Null, <<>>, Unresolved),
      Label(<<"l","i">>, <<"$","#">>, <<>>, Unresolved),
      Label(<<"l","i">>, <<"$","#">>, <<[name |-> "title", value |-> <<"$","#">>]>>, NoRepeat),
      Label(<<"l","i">>, <<"x">>, <<[name |-> "title", value |-> <<>>]>>, NoRepeat),
      Label(<<"l","i">>, <<"x","|">>, <<>>, NoRepeat),
      Label(<<"l","i">>, <<"|","x","|">>, <<>>, NoRepeat) }

InitContent ==
    /\ IsTree(nodes, ContentKinds, MaxNodes - 1)
    /\ root = 1
    /\ before = nodes
    /\ last = Call("init", 0, NONE, NoContent)

NextContent ==
    \/ \E amount \in 1..MaxContent : Prepare(amount)
    \/ \E content \in Arrays : Insert(content)
    \/ \E content \in Arrays : Expand(content)

SpecContent == InitContent /\ [][NextContent]_vars

----------------------------------------------------------------------------
(* Node Content Insertion and Node Content Setting, called on one node *)

Attr(name, value) == [name |-> name, value |-> value]

NodeKinds ==
    { Label(<<"a">>, Null, <<Attr("title", <<>>)>>, NoRepeat),
      Label(<<"A">>, <<"x">>, <<>>, NoRepeat),
      Label(<<"l","i">>, <<"\\","|">>, <<Attr("href", <<"x">>)>>, NoRepeat),
      Label(<<"l","i">>, <<"x","|">>, <<>>, NoRepeat),
      Label(<<"l","i">>, <<"$","#">>, <<Attr("title", <<"x","$","#">>)>>, NoRepeat),
      Label(<<"l","i">>, <<"\\","$","#">>, <<>>, NoRepeat),
      Label(<<"l","i">>, <<"\\","$","#","$","#">>, <<>>, NoRepeat),
      Label(<<"l","i">>, Null, <<>>, NoRepeat) }

\* a URL without and with a scheme, an e-mail address, plain text
Texts ==
    { <<"a",".","c","o">>,
      <<"f","t","p",":","/","/","a",".","c","o","/","x">>,
      <<"u","@","a",".","c","o">>,
      <<"h","i">> }

Text(s) == [kind |-> "string", items |-> <<s>>]

InitNode ==
    /\ IsTree(nodes, NodeKinds, MaxNodes - 1)
    /\ root = 1
    /\ before = nodes
    /\ last = Call("init", 0, NONE, NoContent)

InsertContent(n, content) ==
    /\ last.op = "init"
    /\ nodes' = insertContent(nodes, n, content)
    /\ before' = nodes
    /\ last' = Call("insertContent", 0, n, Text(content))
    /\ UNCHANGED root

SetNodeContent(n, content) ==
    /\ last.op = "init"
    /\ nodes' = setNodeContent(nodes, n, content)
    /\ before' = nodes
    /\ last' = Call("setNodeContent", 0, n, Text(content))
    /\ UNCHANGED root

NextNode ==
    \/ \E n \in DOMAIN nodes : \E content \in Texts : InsertContent(n, content)
    \/ \E n \in DOMAIN nodes : \E content \in Texts : SetNodeContent(n, content)

SpecNode == InitNode /\ [][NextNode]_vars

----------------------------------------------------------------------------
(* Vocabulary of the properties *)

IsUnresolved(T, n) == T[n].repeat.present /\ T[n].repeat.count = NullCount

IsImplicit(T, n) == T[n].repeat.present /\ T[n].repeat.implicit

\* the nodes of the tree, as walk() sees them: all but the root
Walked(T) == Subtree(T, root) \ {root}

UnresolvedIn(T) == {n \in Walked(T) : IsUnresolved(T, n)}

ImplicitIn(T) == {n \in Walked(T) : IsImplicit(T, n)}

\* the nodes of the subtree of n in document order
RECURSIVE Preorder(_, _), PreorderAll(_, _)
Preorder(T, n) == <<n>> \o PreorderAll(T, T[n].children)

PreorderAll(T, kids) ==
    IF kids = <<>> THEN <<>> ELSE Preorder(T, kids[1]) \o PreorderAll(T, Tail(kids))

\* the last node of the subtree of n in document order
LastInOrder(T, n) == LET o == Preorder(T, n) IN o[Len(o)]

ValuesOf(T, n) == LET o == Preorder(T, n) IN [i \in DOMAIN o |-> T[o[i]].value]

\* the subtree of n1 in T1 is a copy of the descendants of n2 in T2
RECURSIVE SameBelow(_, _, _, _)
SameBelow(T1, n1, T2, n2) ==
    /\ T1[n1].name = T2[n2].name
    /\ T1[n1].value = T2[n2].value
    /\ T1[n1].attributes = T2[n2].attributes
    /\ Len(T1[n1].children) = Len(T2[n2].children)
    /\ \A i \in DOMAIN T1[n1].children :
          LET c1 == T1[n1].children[i]
              c2 == T2[n2].children[i]
          IN /\ T1[c1].repeat = T2[c2].repeat
             /\ T1[c1].parent = n1
             /\ SameBelow(T1, c1, T2, c2)

\* the one unresolved repeater of the tree the last call started from
TheUnresolved == CHOOSE n \in UnresolvedIn(before) : TRUE

NonEmptyArray(content) == isArray(content) /\ content.items # <<>>

----------------------------------------------------------------------------
(* Properties of prepare() *)

\* C1: prepare(tree, N), N >= 1, on a tree with exactly one unresolved
\* repeater takes the repeater out of the tree and puts N consecutive copies
\* in its place among its parent's children; copy i (from 0, in document
\* order) has repeat = {implicit: true, count: N, value: i + 1, index: i};
\* the siblings before and after stay where they were, in order.
C1_RepeatCount ==
    (last.op = "prepare" /\ last.amount >= 1 /\ Cardinality(UnresolvedIn(before)) = 1) =>
        LET u == TheUnresolved
            p == before[u].parent
            old == before[p].children
            new == nodes[p].children
            k == IndexOf(old, u)
            N == last.amount
        IN /\ u \notin Subtree(nodes, root)
           /\ Len(new) = Len(old) - 1 + N
           /\ SubSeq(new, 1, k - 1) = SubSeq(old, 1, k - 1)
           /\ SubSeq(new, k + N, Len(new)) = SubSeq(old, k + 1, Len(old))
           /\ \A i \in 0..(N - 1) :
                 LET c == new[k + i] IN
                 /\ c \notin DOMAIN before
                 /\ nodes[c].parent = p
                 /\ nodes[c].repeat = [present |-> TRUE, implicit |-> TRUE,
                                       count |-> N, value |-> i + 1, index |-> i]
                 /\ SameBelow(nodes, c, before, u)

\* a repeater with a sibling on each side was expanded into two copies
C1_Witness ==
    /\ last.op = "prepare" /\ last.amount = 2
    /\ Cardinality(UnresolvedIn(before)) = 1
    /\ LET u == TheUnresolved
           k == IndexOf(before[before[u].parent].children, u)
       IN k > 1 /\ k < Len(before[before[u].parent].children)

\* C10: after prepare() no node of the tree is an unresolved repeater, nested
\* repeaters inside the inserted copies included.
C10_NestedResolved ==
    last.op = "prepare" => UnresolvedIn(nodes) = {}

----------------------------------------------------------------------------
(* Properties of insert() and of the default export *)

\* C4: insert(tree, []) and insert(tree, "") change nothing: no node is
\* added, removed or rewritten.
C4_EmptyNoOp ==
    (last.op = "insert" /\ last.content.kind \in {"array", "string"}
        /\ (last.content.items = <<>> \/ last.content.items = << <<>> >>)) =>
        nodes = before

\* insert(tree, []) on a prepared tree, whose copies wait for content
C4_Witness ==
    /\ last.op = "insert"
    /\ last.content = Array(<<>>)
    /\ ImplicitIn(before) # {}
    /\ nodes = before

\* C5: with no implicit-repeat node in the tree and a non-empty list,
\* insert() hands the items joined by newlines to setNodeContent on the one
\* node reached from the root along last children, and leaves every other
\* node as it was.
C5_Fallback ==
    (last.op = "insert" /\ NonEmptyArray(last.content) /\ ImplicitIn(before) = {}) =>
        LET d == LastInOrder(before, root)
            joined == join(last.content.items, <<"\n">>)
        IN /\ DOMAIN nodes = DOMAIN before
           /\ \A n \in DOMAIN nodes : n # d => nodes[n] = before[n]
           /\ nodes[d] = setNodeContent(before, d, joined)[d]
           /\ findUnescapedTokens(before[d].value, caret) = <<>>
                 => nodes[d].value = joined

\* two items went, joined, into the last grandchild of a tree whose only
\* repeater has an explicit count
C5_Witness ==
    /\ last.op = "insert"
    /\ Len(last.content.items) = 2 /\ isArray(last.content)
    /\ ImplicitIn(before) = {}
    /\ \E n \in Walked(before) : before[n].repeat.present
    /\ LET d == LastInOrder(before, root)
       IN /\ before[d].parent # root /\ d # root
          /\ nodes[d].value = last.content.items[1] \o <<"\n">> \o last.content.items[2]

\* C9 as amended: a lone string is the list of that one string
C9_StringShorthand ==
    (last.op = "expand" /\ last.content.kind = "string") =>
        nodes = insert(prepare(before, root, 1), root, Array(last.content.items))

\* a lone string resolved a repeater and became the content of its one copy
C9_Witness ==
    /\ last.op = "expand" /\ last.content.kind = "string"
    /\ UnresolvedIn(before) # {}
    /\ \E n \in ImplicitIn(nodes) :
          nodes[n].repeat.count = 1 /\ nodes[n].value = last.content.items[1]

\* C9: any lone value, string or not, is the list of that one value
C9_AnyLoneValue ==
    (last.op = "expand" /\ ~isArray(last.content)) =>
        nodes = insert(prepare(before, root, 1), root, Array(last.content.items))

----------------------------------------------------------------------------
(* Properties of content distribution *)

\* the texts of a node: its value, then its attribute values
TextsOf(T, n) ==
    <<T[n].value>> \o [k \in DOMAIN T[n].attributes |-> T[n].attributes[k].value]

\* how many times the character ch stands in the texts of the subtree of n
Occ(T, n, ch) ==
    Cardinality(UNION {UNION {{<<m, k, i>> : i \in {j \in DOMAIN TextsOf(T, m)[k] :
                                                    TextsOf(T, m)[k][j] = ch}} :
                              k \in DOMAIN TextsOf(T, m)} :
                       m \in Subtree(T, n)})

\* how many unescaped tokens stand in the non-empty texts of the subtree of n
TokensIn(T, n, token) ==
    Cardinality(UNION {UNION {{<<m, k, i>> : i \in DOMAIN findUnescapedTokens(TextsOf(T, m)[k], token)} :
                              k \in {j \in DOMAIN TextsOf(T, m) : Truthy(TextsOf(T, m)[j])}} :
                       m \in Subtree(T, n)})

\* token stands somewhere in str, escaped or not
HasSub(str, token) ==
    \E i \in 1..Len(str) :
        i + Len(token) - 1 <= Len(str) /\ SubSeq(str, i, i + Len(token) - 1) = token

NoTokensIn(T, n) ==
    \A m \in Subtree(T, n) : \A k \in DOMAIN TextsOf(T, m) :
        ~HasSub(TextsOf(T, m)[k], placeholder) /\ ~HasSub(TextsOf(T, m)[k], caret)

\* how many items of the list are equal to item j
Multiplicity(items, j) == Cardinality({k \in DOMAIN items : items[k] = items[j]})

\* C2: the default export on a tree whose one unresolved repeater holds no
\* placeholder and no caret, with a list of N >= 1 items: copy i (in document
\* order) has content[i] as the value of its last-child leaf, and every other
\* node of the copy keeps the value and attributes of the template.
C2_Distribution ==
    (last.op = "expand" /\ NonEmptyArray(last.content)
        /\ Cardinality(UnresolvedIn(before)) = 1 /\ NoTokensIn(before, TheUnresolved)) =>
        LET u == TheUnresolved
            p == before[u].parent
            k == IndexOf(before[p].children, u)
            was == Preorder(before, u)
        IN \A i \in 0..(Len(last.content.items) - 1) :
              LET c == nodes[p].children[k + i]
                  now == Preorder(nodes, c)
              IN /\ nodes[c].repeat.index = i
                 /\ Len(now) = Len(was)
                 /\ nodes[now[Len(now)]].value = last.content.items[i + 1]
                 /\ \A j \in 1..(Len(now) - 1) : nodes[now[j]].value = before[was[j]].value
                 /\ \A j \in 1..Len(now) : nodes[now[j]].attributes = before[was[j]].attributes

\* two different items went into the leaves of the two copies of a repeater
\* that has a child
C2_Witness ==
    /\ last.op = "expand" /\ isArray(last.content)
    /\ Len(last.content.items) = 2
    /\ last.content.items[1] # last.content.items[2]
    /\ Cardinality(UnresolvedIn(before)) = 1
    /\ NoTokensIn(before, TheUnresolved)
    /\ before[TheUnresolved].children # <<>>
    /\ LET p == before[TheUnresolved].parent
           k == IndexOf(before[p].children, TheUnresolved)
       IN /\ nodes[LastInOrder(nodes, nodes[p].children[k])].value = last.content.items[1]
          /\ nodes[LastInOrder(nodes, nodes[p].children[k + 1])].value = last.content.items[2]

\* C3: after insert() with a non-empty list every item stands exactly once in
\* the tree, inside the implicit-repeat node of its index when there are
\* implicit-repeat nodes -- for all trees. Stated for the insert() of the
\* default export, which follows prepare(tree, content.length), and for the
\* trees without a caret, where placeholders alone decide the insertion points.
C3_ExactlyOnce ==
    (last.op = "expand" /\ NonEmptyArray(last.content)
        /\ \A m \in Subtree(before, root) : ~HasSub(before[m].value, caret)) =>
        \A j \in DOMAIN last.content.items :
            /\ Occ(nodes, root, last.content.items[j][1]) = Multiplicity(last.content.items, j)
            /\ ImplicitIn(nodes) # {} =>
                  \E n \in ImplicitIn(nodes) :
                      /\ nodes[n].repeat.index = j - 1
                      /\ Occ(nodes, n, last.content.items[j][1]) >= 1

\* the implicit-repeat nodes are the copies of one repeater, one per item
OneGroup(T, items) ==
    LET G == ImplicitIn(T) IN
    /\ Cardinality(G) = Len(items)
    /\ \A n \in G : T[n].repeat.count = Len(items)
    /\ \A n, m \in G : n # m =>
          /\ T[n].repeat.index # T[m].repeat.index
          /\ T[n].parent = T[m].parent

\* the subtree of n offers one insertion point: one placeholder, or none and
\* at most one caret in its last leaf
OnePoint(T, n) ==
    \/ TokensIn(T, n, placeholder) = 1
    \/ /\ TokensIn(T, n, placeholder) = 0
       /\ Len(findUnescapedTokens(T[LastInOrder(T, n)].value, caret)) <= 1

\* C3 as amended: exactly once, when the implicit-repeat nodes are the copies
\* of one repeater made for this list and each copy offers one insertion
\* point; or when there is no implicit-repeat node and the last leaf of the
\* tree has at most one caret.
C3_CoverageOnePoint ==
    (last.op = "insert" /\ NonEmptyArray(last.content)
        /\ \/ ImplicitIn(before) = {}
              /\ Len(findUnescapedTokens(before[LastInOrder(before, root)].value, caret)) <= 1
           \/ ImplicitIn(before) # {} /\ OneGroup(before, last.content.items)
              /\ \A n \in ImplicitIn(before) : OnePoint(before, n)) =>
        \A j \in DOMAIN last.content.items :
            /\ Occ(nodes, root, last.content.items[j][1]) = Multiplicity(last.content.items, j)
            /\ ImplicitIn(before) # {} =>
                  \E n \in ImplicitIn(nodes) :
                      /\ nodes[n].repeat.index = j - 1
                      /\ Occ(nodes, n, last.content.items[j][1]) = 1

\* two items replaced the placeholder of the two copies of a repeater
C3_Witness ==
    /\ last.op = "insert" /\ Len(last.content.items) = 2
    /\ OneGroup(before, last.content.items)
    /\ \A n \in ImplicitIn(before) : TokensIn(before, n, placeholder) = 1
    /\ \A n \in ImplicitIn(nodes) :
          Occ(nodes, n, last.content.items[nodes[n].repeat.index + 1][1]) = 1

----------------------------------------------------------------------------
(* Properties of insertContent() and setNodeContent() *)

HasHref(T, n) == \E i \in DOMAIN T[n].attributes : T[n].attributes[i].name = "href"

Href(T, n) ==
    T[n].attributes[CHOOSE i \in DOMAIN T[n].attributes : T[n].attributes[i].name = "href"].value

OtherAttributes(T, n) == SelectSeq(T[n].attributes, LAMBDA a : a.name # "href")

\* name is "a" in any letter case, or an href is declared
LinkShaped(T, n) == T[n].name \in {<<"a">>, <<"A">>} \/ HasHref(T, n)

\* every node but those of the set stayed as it was, and none was created
OnlyChanged(changed) ==
    /\ DOMAIN nodes = DOMAIN before
    /\ \A m \in DOMAIN nodes : m \notin changed => nodes[m] = before[m]

\* C6: insertContent(node, content): if an unescaped placeholder stands in
\* the value or a non-empty attribute value of the node or of a descendant,
\* all of them, in the whole subtree, are replaced by the content and no
\* value is overwritten by setNodeContent; if none stands anywhere in the
\* subtree, setNodeContent is applied to the last-child leaf (the node itself
\* when childless) and nothing else changes.
C6_PlaceholderOrFallback ==
    last.op = "insertContent" =>
        LET n == last.node
            c == last.content.items[1]
            d == LastInOrder(before, n)
        IN IF TokensIn(before, n, placeholder) > 0
           THEN /\ OnlyChanged(Subtree(before, n))
                /\ \A m \in Subtree(before, n) :
                      /\ nodes[m].value = replacePlaceholder(before[m].value, c).str
                      /\ Len(nodes[m].attributes) = Len(before[m].attributes)
                      /\ \A k \in DOMAIN before[m].attributes :
                            LET a == before[m].attributes[k] IN
                            nodes[m].attributes[k] =
                                IF Truthy(a.value)
                                THEN Attr(a.name, replacePlaceholder(a.value, c).str)
                                ELSE a
                      /\ findUnescapedTokens(before[m].value, placeholder) = <<>>
                            => nodes[m].value = before[m].value
           ELSE /\ OnlyChanged({d})
                /\ nodes[d] = setNodeContent(before, d, c)[d]
                /\ findUnescapedTokens(before[d].value, caret) = <<>> => nodes[d].value = c

\* a node and its child both held a placeholder; both were replaced and the
\* child, the last leaf, was not overwritten
C6_Witness ==
    /\ last.op = "insertContent"
    /\ LET n == last.node
           c == last.content.items[1]
       IN /\ Len(before[n].children) = 1
          /\ before[n].value = <<"$", "#">>
          /\ before[before[n].children[1]].value = <<"\\", "$", "#", "$", "#">>
          /\ nodes[n].value = c
          /\ nodes[n].attributes[1].value = <<"x">> \o c
          /\ nodes[before[n].children[1]].value = <<"$", "#">> \o c

\* the subtree held no placeholder: the content went to the last leaf only
C6_WitnessFallback ==
    /\ last.op = "insertContent"
    /\ TokensIn(before, last.node, placeholder) = 0
    /\ before[last.node].children # <<>>
    /\ nodes[last.node] = before[last.node]
    /\ nodes[LastInOrder(before, last.node)].value = last.content.items[1]

\* str with every escaped token un-escaped and every other token replaced by c
RECURSIVE Rewrite(_, _, _)
Rewrite(str, c, pos) ==
    IF pos > Len(str) THEN <<>>
    ELSE IF pos + 2 <= Len(str) /\ SubSeq(str, pos, pos + 2) = <<escape>> \o placeholder
         THEN placeholder \o Rewrite(str, c, pos + 3)
    ELSE IF pos + 1 <= Len(str) /\ SubSeq(str, pos, pos + 1) = placeholder
         THEN c \o Rewrite(str, c, pos + 2)
    ELSE <<str[pos]>> \o Rewrite(str, c, pos + 1)

C8_LinkHeuristic ==
    (last.op = "setNodeContent"
        /\ findUnescapedTokens(before[last.node].value, caret) = <<>>) =>
        LET n == last.node
            c == last.content.items[1]
        IN /\ OnlyChanged({n})
           /\ nodes[n].value = c
           /\ nodes[n].name = before[n].name
           /\ OtherAttributes(nodes, n) = OtherAttributes(before, n)
           /\ IF LinkShaped(before, n) /\ reUrl(c)
              THEN HasHref(nodes, n) /\ Href(nodes, n) = IF reProto(c) THEN c
                       ELSE <<"h","t","t","p",":","/","/">> \o c
              ELSE IF LinkShaped(before, n) /\ reEmail(c)
                   THEN HasHref(nodes, n) /\ Href(nodes, n) = <<"m","a","i","l","t","o",":">> \o c
                   ELSE nodes[n].attributes = before[n].attributes

\* "a.co" set on <A>x</A> gave href="http://a.co" and the value "a.co"
C8_Witness ==
    /\ last.op = "setNodeContent"
    /\ before[last.node].name = <<"A">>
    /\ before[last.node].value = <<"x">>
    /\ ~HasHref(before, last.node)
    /\ last.content.items[1] = <<"a",".","c","o">>
    /\ nodes[last.node].value = <<"a",".","c","o">>
    /\ Href(nodes, last.node) = <<"h","t","t","p",":","/","/","a",".","c","o">>

====
